---- MODULE Spec2Model ----
(***************************************************************************)
(* LocustDB: the row-at-a-time query driver (query_engine.rs), the integer *)
(* column encodings (mem_store/integers.rs) and CSV ingestion              *)
(* (ingest/csv_loader.rs).                                                 *)
(*                                                                         *)
(* Spec      the query driver: compile, one step per batch, finish.        *)
(***************************************************************************)
EXTENDS Integers, Sequences, FiniteSets, TLC

\* ------------------------------------------------------------------ bounds
MaxBatches == 2
MaxRows == 2
MaxLimit == 2
MaxOffset == 1
MaxValues == 2
MaxCols == 2
MaxFields == 2
MaxBatchSize == 2
MaxRecords == 2
MaxCells == 3
MaxCalls == 2
MaxWindow == 2

VARIABLES
    query,            \* Query: select, filter, aggregate, order_by, limit
    source,           \* Vec<Batch> the query is compiled against
    pc,               \* position of the driver
    subqueries,       \* CompiledQuery.subqueries
    output_colnames,  \* CompiledQuery.output_colnames
    compiled_order_by,\* CompiledQuery.compiled_order_by
    next_batch,       \* index of the next subquery the driver's loop takes
    combined_rows,    \* combined_results.rows of the select branch
    combined_groups,  \* combined_results.groups of the aggregate branch
    rows_scanned,     \* combined_results.stats.rows_scanned
    result,           \* QueryResult.rows
    overflow_checks,  \* whether the build traps integer overflow (debug) or wraps
    int_values,       \* the Vec<i64> handed to IntegerColumn::new
    int_min,          \* the observed minimum handed to IntegerColumn::new
    int_max,          \* the observed maximum handed to IntegerColumn::new
    int_pc,           \* position of the integer-column scenario
    int_column,       \* the Box<ColumnData> built, or a panic
    int_decoded,      \* what collect_decoded returned, or a panic
    colnames,         \* auto_ingest: the column names supplied
    batch_size,       \* auto_ingest: rows per batch
    extractors,       \* auto_ingest: the column names that have an extractor
    num_fields,       \* the number of fields of each record of the stream
    ingested,         \* the records auto_ingest has taken from the stream
    raw_cols,         \* auto_ingest: the RawCols being filled
    row_num,          \* auto_ingest: rows taken so far
    batches,          \* auto_ingest: the batches created so far
    ingest_pc,        \* position of auto_ingest
    cells,            \* the cells still to be pushed to one RawCol
    pushed,           \* the cells pushed to it so far
    raw_col,          \* that RawCol
    finalized,        \* the column RawCol::finalize made of it
    rawcol_pc,        \* position of the RawCol scenario
    file_opens,       \* CSVIngestionTask: whether the file can be opened
    gzipped,          \* CSVIngestionTask: the gzipped flag
    task_colnames,    \* CSVIngestionTask: the colnames option
    sent,             \* the results sent on the task's sender
    loaded,           \* the batch lists handed to load_batches
    task_pc,          \* position of CSVIngestionTask::execute
    op,               \* the vector operator: AdditionVS or a VecConstBoolOperator
    op_checks,        \* whether the build traps arithmetic overflow
    op_c,             \* the constant in the operator's rhs buffer
    op_data,          \* the window in the lhs buffer at the last execute
    op_stream,        \* the stream flag of the last execute
    op_before,        \* the output buffer before the last execute
    op_output,        \* the output buffer
    op_calls,         \* the number of execute calls so far
    op_pc,            \* position of the operator's life cycle
    cmp_op,           \* the comparison run on the encoded column
    cmp_c,            \* the constant the column is compared with
    cmp_mask,         \* the mask the comparison on the codes produced
    enc_tags,         \* what the column reports about its encoding
    cmp_pc            \* position of the encoded-column scenario

qvars == <<query, source, pc, subqueries, output_colnames, compiled_order_by,
           next_batch, combined_rows, combined_groups, rows_scanned, result>>

ivars == <<overflow_checks, int_values, int_min, int_max, int_pc, int_column, int_decoded>>

gvars == <<colnames, batch_size, extractors, num_fields, ingested, raw_cols, row_num,
           batches, ingest_pc>>

rvars == <<cells, pushed, raw_col, finalized, rawcol_pc>>

tvars == <<file_opens, gzipped, task_colnames, sent, loaded, task_pc>>

ovars == <<op, op_checks, op_c, op_data, op_stream, op_before, op_output, op_calls, op_pc>>

cvars == <<cmp_op, cmp_c, cmp_mask, enc_tags, cmp_pc>>

vars == <<qvars, ivars, gvars, rvars, tvars, ovars, cvars>>

\* ------------------------------------------------------------- sequences
Range(s) == {s[i] : i \in DOMAIN s}

Min2(x, y) == IF x <= y THEN x ELSE y

\* s.skip(n)
Skip(s, n) == SubSeq(s, Min2(n, Len(s)) + 1, Len(s))

\* s.take(n)
Take(s, n) == SubSeq(s, 1, Min2(n, Len(s)))

RECURSIVE Flatten(_)
Flatten(ss) == IF ss = <<>> THEN <<>> ELSE Head(ss) \o Flatten(Tail(ss))

RECURSIVE SumSeq(_)
SumSeq(s) == IF s = <<>> THEN 0 ELSE Head(s) + SumSeq(Tail(s))

\* all sequences over S of length lo..hi
SeqsBetween(S, lo, hi) == UNION {[1..n -> S] : n \in lo..hi}

\* all orderings of a finite set, as sequences
Orderings(S) == {s \in [1..Cardinality(S) -> S] : Range(s) = S}

\* ------------------------------------------------------------ expressions
ColName(n) == [t |-> "ColName", name |-> n]
ColIndex(i) == [t |-> "ColIndex", i |-> i]
Const(v) == [t |-> "Const", v |-> v]
Func(f, l, r) == [t |-> "Func", f |-> f, l |-> l, r |-> r]
None == [t |-> "None"]

\* Expr::add_colnames: the column names an expression mentions
RECURSIVE add_colnames(_)
add_colnames(e) ==
    IF e.t = "ColName" THEN {e.name}
    ELSE IF e.t = "Func" THEN add_colnames(e.l) \cup add_colnames(e.r)
    ELSE {}

\* Expr::compile: column names become indices into the record
RECURSIVE ExprCompile(_, _)
ExprCompile(e, colmap) ==
    IF e.t = "ColName" THEN ColIndex(colmap[e.name])
    ELSE IF e.t = "Func" THEN Func(e.f, ExprCompile(e.l, colmap), ExprCompile(e.r, colmap))
    ELSE e

\* Expr::eval on a record
RECURSIVE Eval(_, _)
Eval(e, record) ==
    IF e.t = "ColIndex" THEN record[e.i]
    ELSE IF e.t = "Const" THEN e.v
    ELSE IF e.f = "Add" THEN Eval(e.l, record) + Eval(e.r, record)
    ELSE IF e.f = "GT" THEN Eval(e.l, record) > Eval(e.r, record)
    ELSE Eval(e.l, record) = Eval(e.r, record)

\* ------------------------------------------------------------ aggregators
\* Aggregator::zero
AggZero(agg) == 0

\* Aggregator::reduce
AggReduce(agg, accumulator, elem) ==
    IF agg = "Count" THEN accumulator + 1 ELSE accumulator + elem

\* Aggregator::combine
AggCombine(agg, accumulator1, accumulator2) == accumulator1 + accumulator2

\* ------------------------------------------------------ the compiled query
\* Query::find_referenced_cols
find_referenced_cols(q) ==
    UNION {add_colnames(q.select[i]) : i \in DOMAIN q.select}
    \cup add_colnames(q.filter)
    \cup UNION {add_colnames(q.aggregate[i][2]) : i \in DOMAIN q.aggregate}

\* find_all_cols: the column names of all batches (a HashSet)
find_all_cols(src) ==
    UNION {{src[b].cols[c].name : c \in DOMAIN src[b].cols} : b \in DOMAIN src}

\* Query::is_select_star
is_select_star(q) ==
    /\ Len(q.select) = 1
    /\ q.select[1].t = "ColName"
    /\ q.select[1].name = "*"

\* create_colname_map: name -> position, a later column of the same name wins
create_colname_map(cols) ==
    [n \in {cols[i].name : i \in DOMAIN cols} |->
        (CHOOSE i \in DOMAIN cols :
            /\ cols[i].name = n
            /\ \A j \in DOMAIN cols : cols[j].name = n => j <= i) - 1]

\* the record index the compiled expressions use (0-based in the code)
IndexMap(colmap) == [n \in DOMAIN colmap |-> colmap[n] + 1]

\* Query::compile_for_batch
compile_for_batch(q, batch) ==
    LET referenced_cols == find_referenced_cols(q)
        efficient_source == SelectSeq(batch.cols, LAMBDA col : col.name \in referenced_cols)
        column_indices == IndexMap(create_colname_map(efficient_source))
    IN  [select |-> [i \in DOMAIN q.select |-> ExprCompile(q.select[i], column_indices)],
         filter |-> ExprCompile(q.filter, column_indices),
         aggregate |-> [i \in DOMAIN q.aggregate |->
                          <<q.aggregate[i][1], ExprCompile(q.aggregate[i][2], column_indices)>>],
         coliter |-> [i \in DOMAIN efficient_source |-> efficient_source[i].data]]

DigitStr == <<"0", "1", "2", "3", "4", "5", "6", "7", "8", "9">>

\* format!("{}_{}", prefix, n) for the small n the model reaches
Fmt(prefix, n) == prefix \o "_" \o DigitStr[n + 1]

\* the select half of result_column_names, anon_columns being the counter
RECURSIVE select_cols(_, _)
select_cols(select, anon_columns) ==
    IF select = <<>> THEN <<>>
    ELSE IF Head(select).t = "ColName"
         THEN <<Head(select).name>> \o select_cols(Tail(select), anon_columns)
         ELSE <<Fmt("col", anon_columns + 1)>> \o select_cols(Tail(select), anon_columns + 1)

\* the aggregate half of result_column_names, anon_aggregates being the counter
RECURSIVE aggregate_cols(_, _)
aggregate_cols(aggregate, anon_aggregates) ==
    IF aggregate = <<>> THEN <<>>
    ELSE <<Fmt(IF Head(aggregate)[1] = "Count" THEN "count" ELSE "sum", anon_aggregates + 1)>>
         \o aggregate_cols(Tail(aggregate), anon_aggregates + 1)

\* a select counter that numbers by position instead of by anonymous expression
RECURSIVE select_cols_by_position(_, _)
select_cols_by_position(select, anon_columns) ==
    IF select = <<>> THEN <<>>
    ELSE IF Head(select).t = "ColName"
         THEN <<Head(select).name>> \o select_cols_by_position(Tail(select), anon_columns + 1)
         ELSE <<Fmt("col", anon_columns + 1)>>
              \o select_cols_by_position(Tail(select), anon_columns + 1)

result_column_names_by_position(q) ==
    select_cols_by_position(q.select, -1) \o aggregate_cols(q.aggregate, -1)

\* Query::result_column_names
result_column_names(q) ==
    select_cols(q.select, -1) \o aggregate_cols(q.aggregate, -1)

\* the output_colmap of Query::compile: name -> index, a later name wins
output_colmap(names) ==
    [n \in Range(names) |->
        CHOOSE i \in DOMAIN names :
            /\ names[i] = n
            /\ \A j \in DOMAIN names : names[j] = n => j <= i]

\* --------------------------------------------------- per-batch execution
\* one pass of `for i in 0..self.coliter.len()`: next() on each column in
\* turn, stopping at the first exhausted one
PullRecord(coliter) ==
    LET exhausted == {i \in DOMAIN coliter : coliter[i] = <<>>}
        stop == IF exhausted = {} THEN Len(coliter) + 1
                ELSE CHOOSE i \in exhausted : \A j \in exhausted : i <= j
    IN  [some |-> exhausted = {},
         record |-> [i \in 1..(stop - 1) |-> Head(coliter[i])],
         coliter |-> [i \in DOMAIN coliter |->
                        IF i < stop THEN Tail(coliter[i]) ELSE coliter[i]]]

\* the loop of run_select_query
RECURSIVE SelectLoop(_, _, _, _)
SelectLoop(q, coliter, rows, rows_touched) ==
    LET p == PullRecord(coliter)
    IN  IF ~p.some
        THEN [rows |-> rows, rows_scanned |-> rows_touched, coliter |-> p.coliter]
        ELSE SelectLoop(q, p.coliter,
                        IF Eval(q.filter, p.record) = TRUE
                        THEN Append(rows, [i \in DOMAIN q.select |-> Eval(q.select[i], p.record)])
                        ELSE rows,
                        rows_touched + 1)

\* CompiledSingleBatchQuery::run_select_query
run_select_query(q) ==
    IF Len(q.coliter) = 0
    THEN [rows |-> <<>>, rows_scanned |-> 0, coliter |-> q.coliter]
    ELSE SelectLoop(q, q.coliter, <<>>, 0)

EmptyMap == [g \in {} |-> <<>>]

\* groups.entry(group).or_insert(zero) followed by the reduce of each aggregate
Accumulate(q, groups, record) ==
    LET group == [i \in DOMAIN q.select |-> Eval(q.select[i], record)]
        accumulator == IF group \in DOMAIN groups THEN groups[group]
                       ELSE [i \in DOMAIN q.aggregate |-> AggZero(q.aggregate[i][1])]
        reduced == [i \in DOMAIN q.aggregate |->
                      AggReduce(q.aggregate[i][1], accumulator[i],
                                Eval(q.aggregate[i][2], record))]
    IN  (group :> reduced) @@ groups

\* a loop that accumulates every record, passing the filter or not
RECURSIVE AggregationLoopUnfiltered(_, _, _, _)
AggregationLoopUnfiltered(q, coliter, groups, rows_touched) ==
    LET p == PullRecord(coliter)
    IN  IF ~p.some
        THEN [groups |-> groups, rows_scanned |-> rows_touched, coliter |-> p.coliter]
        ELSE LET groups2 == Accumulate(q, groups, p.record)
             IN  IF Len(coliter) = 0
                 THEN [groups |-> groups2, rows_scanned |-> rows_touched,
                       coliter |-> p.coliter]
                 ELSE AggregationLoopUnfiltered(q, p.coliter, groups2, rows_touched + 1)

\* the 'outer loop of run_aggregation_query
RECURSIVE AggregationLoop(_, _, _, _)
AggregationLoop(q, coliter, groups, rows_touched) ==
    LET p == PullRecord(coliter)
    IN  IF ~p.some
        THEN [groups |-> groups, rows_scanned |-> rows_touched, coliter |-> p.coliter]
        ELSE LET groups2 == IF Eval(q.filter, p.record) = TRUE
                            THEN Accumulate(q, groups, p.record)
                            ELSE groups
             IN  IF Len(coliter) = 0
                 THEN [groups |-> groups2, rows_scanned |-> rows_touched,
                       coliter |-> p.coliter]
                 ELSE AggregationLoop(q, p.coliter, groups2, rows_touched + 1)

\* a run_aggregation_query that returns at once when there is no column, as
\* run_select_query does
run_aggregation_query_guarded(q) ==
    IF Len(q.coliter) = 0
    THEN [groups |-> EmptyMap, rows_scanned |-> 0, coliter |-> q.coliter]
    ELSE AggregationLoop(q, q.coliter, EmptyMap, 0)

\* CompiledSingleBatchQuery::run_aggregation_query
run_aggregation_query(q) == AggregationLoop(q, q.coliter, EmptyMap, 0)

\* ------------------------------------------------------------- the driver
\* position at which a stable sort inserts row: after every row whose key is
\* not greater
InsertStable(sorted, row, order_by) ==
    LET k == Eval(order_by, row)
        n == Cardinality({i \in DOMAIN sorted : Eval(order_by, sorted[i]) <= k})
    IN  SubSeq(sorted, 1, n) \o <<row>> \o SubSeq(sorted, n + 1, Len(sorted))

\* an insertion that puts row before the rows of equal key
InsertUnstable(sorted, row, order_by) ==
    LET k == Eval(order_by, row)
        n == Cardinality({i \in DOMAIN sorted : Eval(order_by, sorted[i]) < k})
    IN  SubSeq(sorted, 1, n) \o <<row>> \o SubSeq(sorted, n + 1, Len(sorted))

RECURSIVE sort_by_key_unstable(_, _)
sort_by_key_unstable(rows, order_by) ==
    IF rows = <<>> THEN <<>>
    ELSE InsertUnstable(sort_by_key_unstable(SubSeq(rows, 1, Len(rows) - 1), order_by),
                        rows[Len(rows)], order_by)

\* result_rows.sort_by_key(|record| order_by_expr.eval(record)): a stable sort
RECURSIVE sort_by_key(_, _)
sort_by_key(rows, order_by) ==
    IF rows = <<>> THEN <<>>
    ELSE InsertStable(sort_by_key(SubSeq(rows, 1, Len(rows) - 1), order_by),
                      rows[Len(rows)], order_by)

\* a break whose comparison is the wrong way round
EarlyBreakInverted(order_by, limit, rows) ==
    /\ order_by = None
    /\ limit.offset = 0
    /\ Len(rows) < limit.limit

\* a break as soon as the limit is reached
EarlyBreakAtLimit(order_by, limit, rows) ==
    /\ order_by = None
    /\ limit.offset = 0
    /\ limit.limit <= Len(rows)

\* the condition of the break out of the select loop
EarlyBreak(order_by, limit, rows) ==
    /\ order_by = None
    /\ limit.offset = 0
    /\ limit.limit < Len(rows)

\* a merge in which a later batch's partial replaces the accumulator
MergeGroupOverwrite(aggregate, groups, group, accumulator1) ==
    (group :> accumulator1) @@ groups

\* the body of `for (group, accumulator1) in batch_result.groups`
MergeGroup(aggregate, groups, group, accumulator1) ==
    IF group \in DOMAIN groups
    THEN [groups EXCEPT ![group] =
            [i \in DOMAIN aggregate |-> AggCombine(aggregate[i], accumulator1[i], @[i])]]
    ELSE (group :> accumulator1) @@ groups

\* the whole `for (group, accumulator1) in batch_result.groups` loop; the
\* HashMap yields its distinct keys in an order that does not matter here
RECURSIVE MergeGroups(_, _, _)
MergeGroups(aggregate, groups, partial) ==
    IF DOMAIN partial = {} THEN groups
    ELSE LET group == CHOOSE g \in DOMAIN partial : TRUE
             rest == [g \in DOMAIN partial \ {group} |-> partial[g]]
         IN  MergeGroups(aggregate,
                         MergeGroup(aggregate, groups, group, partial[group]), rest)

\* RawVal::from, applied to each cell of a row
RawValFrom(row) == row

\* lines 142-150 of run: sort, skip, take, convert
Finalize(result_rows, order_by, limit) ==
    LET sorted == IF order_by # None THEN sort_by_key(result_rows, order_by)
                  ELSE result_rows
        limited == Take(Skip(sorted, limit.offset), limit.limit)
    IN  [i \in DOMAIN limited |-> RawValFrom(limited[i])]

\* ========================================================= 64-bit integers
\* An i64 is its two's-complement bit pattern, four 16-bit limbs, the most
\* significant first.
Base == 2 ^ 16

Zero64 == <<0, 0, 0, 0>>

\* the pattern of a non-negative number below 2^31
FromNat(n) == <<0, 0, n \div Base, n % Base>>

\* x + y modulo 2^64
WrappingAdd(x, y) ==
    LET s4 == x[4] + y[4]
        s3 == x[3] + y[3] + s4 \div Base
        s2 == x[2] + y[2] + s3 \div Base
        s1 == x[1] + y[1] + s2 \div Base
    IN  <<s1 % Base, s2 % Base, s3 % Base, s4 % Base>>

\* x - y modulo 2^64
WrappingSub(x, y) ==
    LET d4 == x[4] - y[4]
        d3 == x[3] - y[3] - (IF d4 < 0 THEN 1 ELSE 0)
        d2 == x[2] - y[2] - (IF d3 < 0 THEN 1 ELSE 0)
        d1 == x[1] - y[1] - (IF d2 < 0 THEN 1 ELSE 0)
    IN  <<d1 % Base, d2 % Base, d3 % Base, d4 % Base>>

\* the pattern of small integer n
FromInt(n) == IF n >= 0 THEN FromNat(n) ELSE WrappingSub(Zero64, FromNat(-n))

IsNegative(x) == x[1] >= Base \div 2

\* unsigned comparison of patterns
ULess(x, y) ==
    \E i \in 1..4 : x[i] < y[i] /\ \A j \in 1..(i - 1) : x[j] = y[j]

\* x < y and x <= y on i64
SLess(x, y) ==
    IF IsNegative(x) # IsNegative(y) THEN IsNegative(x) ELSE ULess(x, y)

SLessEq(x, y) == x = y \/ SLess(x, y)

\* whether x - y leaves the i64 range
SubOverflows(x, y) ==
    IsNegative(x) # IsNegative(y) /\ IsNegative(WrappingSub(x, y)) # IsNegative(x)

\* whether x + y leaves the i64 range
AddOverflows(x, y) ==
    IsNegative(x) = IsNegative(y) /\ IsNegative(WrappingAdd(x, y)) # IsNegative(x)

\* the outcome of an operation that may panic
Ok(v) == [ok |-> TRUE, v |-> v]
Panic == [ok |-> FALSE]

\* `x - y` on i64: a panic where the build traps overflow, the wrapped
\* difference where it does not
Sub64(x, y, checks) ==
    IF checks /\ SubOverflows(x, y) THEN Panic ELSE Ok(WrappingSub(x, y))

\* `x + y` on i64, likewise
Add64(x, y, checks) ==
    IF checks /\ AddOverflows(x, y) THEN Panic ELSE Ok(WrappingAdd(x, y))

I64_MIN == <<Base \div 2, 0, 0, 0>>
I64_MAX == <<Base \div 2 - 1, Base - 1, Base - 1, Base - 1>>

U8_MAX == 255
U16_MAX == 65535
\* u32::MAX as i64
U32_MAX_i64 == <<0, 0, Base - 1, Base - 1>>

\* W::MAX as i64 for the code widths
WMax(w) ==
    CASE w = "u8" -> FromNat(U8_MAX)
      [] w = "u16" -> FromNat(U16_MAX)
      [] w = "u32" -> U32_MAX_i64

\* ------------------------------------------------ mem_store/integers.rs
\* NumCast: T::from(v) is Some exactly when 0 <= v <= T::MAX
CastFits(w, v) == ~IsNegative(v) /\ SLessEq(v, WMax(w))

\* the loop of IntegerOffsetColumn::<T>::new: T::from(v - offset).unwrap()
RECURSIVE EncodeAll(_, _, _, _)
EncodeAll(w, values, offset, checks) ==
    IF values = <<>> THEN Ok(<<>>)
    ELSE LET d == Sub64(Head(values), offset, checks)
             rest == EncodeAll(w, Tail(values), offset, checks)
         IN  IF ~d.ok THEN Panic
             ELSE IF ~CastFits(w, d.v) THEN Panic
             ELSE IF ~rest.ok THEN Panic
             ELSE Ok(<<d.v>> \o rest.v)

\* IntegerOffsetColumn::<T>::new
IntegerOffsetColumn_new(w, values, offset, checks) ==
    LET encoded_vals == EncodeAll(w, values, offset, checks)
    IN  IF ~encoded_vals.ok THEN Panic
        ELSE Ok([enc |-> w, values |-> encoded_vals.v, offset |-> offset])

\* IntegerColumn::new
IntegerColumn_new(values, min, max, checks) ==
    LET range == Sub64(max, min, checks)
    IN  IF ~range.ok THEN Panic
        ELSE IF SLessEq(range.v, FromNat(U8_MAX))
             THEN IntegerOffsetColumn_new("u8", values, min, checks)
        ELSE IF SLessEq(range.v, FromNat(U16_MAX))
             THEN IntegerOffsetColumn_new("u16", values, min, checks)
        ELSE IF SLessEq(range.v, U32_MAX_i64)
             THEN IntegerOffsetColumn_new("u32", values, min, checks)
        ELSE Ok([enc |-> "i64", values |-> values, offset |-> Zero64])

\* PointCodec::decode of IntegerOffsetColumn: value.to_i64().unwrap() + offset
RECURSIVE decode(_, _, _)
decode(data, offset, checks) ==
    IF data = <<>> THEN Ok(<<>>)
    ELSE LET v == Add64(Head(data), offset, checks)
             rest == decode(Tail(data), offset, checks)
         IN  IF ~v.ok \/ ~rest.ok THEN Panic ELSE Ok(<<v.v>> \o rest.v)

\* ColumnData::collect_decoded of IntegerColumn and of IntegerOffsetColumn
collect_decoded(column, checks) ==
    IF column.enc = "i64" THEN Ok(column.values)
    ELSE decode(column.values, column.offset, checks)

\* the i64 values the columns are built from
TestInts ==
    {I64_MIN, FromInt(-1), Zero64, FromInt(1), FromInt(U8_MAX), FromInt(U8_MAX + 1),
     FromInt(U16_MAX), FromInt(U16_MAX + 1), U32_MAX_i64, <<0, 1, 0, 0>>, I64_MAX}

\* the minimum and maximum a column builder observes
ObservedMin(values) == CHOOSE m \in Range(values) : \A v \in Range(values) : SLessEq(m, v)
ObservedMax(values) == CHOOSE m \in Range(values) : \A v \in Range(values) : SLessEq(v, m)

IntIdle ==
    /\ overflow_checks = FALSE
    /\ int_values = <<>>
    /\ int_min = Zero64
    /\ int_max = Zero64
    /\ int_pc = "idle"
    /\ int_column = Panic
    /\ int_decoded = Panic

\* ================================================== ingest/csv_loader.rs
\* A cell is the sequence of its characters.
Digits == {"0", "1", "2", "3", "4", "5", "6", "7", "8", "9"}

DigitVal(c) == (CHOOSE i \in DOMAIN DigitStr : DigitStr[i] = c) - 1

IsDigits(s) == \A i \in DOMAIN s : s[i] \in Digits

\* the number a digit string denotes
RECURSIVE DigitsVal(_)
DigitsVal(s) ==
    IF s = <<>> THEN 0
    ELSE 10 * DigitsVal(SubSeq(s, 1, Len(s) - 1)) + DigitVal(s[Len(s)])

Unsigned(s) == IF s # <<>> /\ s[1] = "-" THEN Tail(s) ELSE s

Signed(s, n) == IF s # <<>> /\ s[1] = "-" THEN -n ELSE n

\* s.parse::<i64>(): an optional sign and at least one digit
ParseI64(s) ==
    LET u == Unsigned(s)
    IN  IF u # <<>> /\ IsDigits(u) THEN Ok(Signed(s, DigitsVal(u))) ELSE Panic

\* the position of the decimal point, 0 if there is none
PointAt(u) ==
    IF \E i \in DOMAIN u : u[i] = "." THEN CHOOSE i \in DOMAIN u : u[i] = "." ELSE 0

\* s.parse::<f64>() followed by `as i64`: an optional sign, digits with at
\* most one decimal point and at least one digit; the cast drops the fraction
ParseF64AsI64(s) ==
    LET u == Unsigned(s)
        p == PointAt(u)
        int == IF p = 0 THEN u ELSE SubSeq(u, 1, p - 1)
        frac == IF p = 0 THEN <<>> ELSE SubSeq(u, p + 1, Len(u))
    IN  IF IsDigits(int) /\ IsDigits(frac) /\ Len(int) + Len(frac) > 0
        THEN Ok(Signed(s, DigitsVal(int)))
        ELSE Panic

\* ColType::new
ColType(string, int, null) ==
    [contains_string |-> string, contains_int |-> int, contains_null |-> null]

\* ColType::determine
determine(s) ==
    IF s = <<>> THEN ColType(FALSE, FALSE, TRUE)
    ELSE IF ParseI64(s).ok \/ ParseF64AsI64(s).ok THEN ColType(FALSE, TRUE, FALSE)
    ELSE ColType(TRUE, FALSE, FALSE)

\* a union that keeps only the newest cell's string bit
bitor_last_string(self, rhs) ==
    [contains_string |-> rhs.contains_string,
     contains_int |-> self.contains_int \/ rhs.contains_int,
     contains_null |-> self.contains_null \/ rhs.contains_null]

\* BitOr for ColType
bitor(self, rhs) ==
    [contains_string |-> self.contains_string \/ rhs.contains_string,
     contains_int |-> self.contains_int \/ rhs.contains_int,
     contains_null |-> self.contains_null \/ rhs.contains_null]

\* RawCol::new
RawCol_new == [types |-> ColType(FALSE, FALSE, FALSE), data |-> <<>>]

\* RawCol::push
push(self, elem) ==
    [types |-> bitor(self.types, determine(elem)), data |-> Append(self.data, elem)]

\* the integer RawCol::finalize pushes for cell s
CellInt(s) ==
    IF s = <<>> THEN Ok(0)
    ELSE IF ParseI64(s).ok THEN ParseI64(s)
    ELSE IF ParseF64AsI64(s).ok THEN ParseF64AsI64(s)
    ELSE Panic

\* StringColBuilder: one string per push
StringColumn(name, data) ==
    [name |-> name, kind |-> "string", len |-> Len(data), data |-> data]

\* IntColBuilder: one integer per push
IntColumn(name, data) ==
    [name |-> name, kind |-> "int", len |-> Len(data), data |-> data]

\* Column::plain(name, length)
PlainColumn(name, length) ==
    [name |-> name, kind |-> "null", len |-> length, data |-> <<>>]

\* RawCol::finalize
finalize(self, name) ==
    IF self.types.contains_string THEN Ok(StringColumn(name, self.data))
    ELSE IF self.types.contains_int
    THEN IF \A i \in DOMAIN self.data : CellInt(self.data[i]).ok
         THEN Ok(IntColumn(name, [i \in DOMAIN self.data |-> CellInt(self.data[i]).v]))
         ELSE Panic
    ELSE Ok(PlainColumn(name, Len(self.data)))

\* an extractor::Extractor: the integer the cell denotes, 0 for any other cell
Extractor(s) == IF ParseI64(s).ok THEN ParseI64(s).v ELSE 0

\* RawCol::extract
extract(self, name) ==
    Ok(IntColumn(name, [i \in DOMAIN self.data |-> Extractor(self.data[i])]))

\* create_batch
create_batch(cols, names, extr) ==
    LET made == [i \in DOMAIN cols |->
                    IF names[i] \in extr THEN extract(cols[i], names[i])
                    ELSE finalize(cols[i], names[i])]
    IN  IF \A i \in DOMAIN made : made[i].ok
        THEN Ok([cols |-> [i \in DOMAIN made |-> made[i].v]])
        ELSE Panic

\* (0..num_columns).map(|_| RawCol::new())
FreshCols(num_columns) == [i \in 1..num_columns |-> RawCol_new]

\* `for (i, val) in row.iter().enumerate() { raw_cols[i].push(val) }`; the
\* index panics for a field beyond the last column
PushRow(cols, row) ==
    IF Len(row) > Len(cols) THEN Panic
    ELSE Ok([i \in DOMAIN cols |-> IF i <= Len(row) THEN push(cols[i], row[i]) ELSE cols[i]])

\* the cells RawCols are fed
Cells ==
    {<<>>, <<"7">>, <<"-", "1", "2">>, <<"2", ".", "5">>, <<"-", "0", ".", "5">>,
     <<"a">>, <<"1", "a">>, <<"-">>}

\* the cells of the records of the ingested streams
IngestCells == {<<>>, <<"7">>, <<"a">>}

ColNames == <<"c1", "c2", "c3", "c4">>

IngestIdle ==
    /\ colnames = <<>>
    /\ batch_size = 1
    /\ extractors = {}
    /\ num_fields = 1
    /\ ingested = <<>>
    /\ raw_cols = <<>>
    /\ row_num = 0
    /\ batches = <<>>
    /\ ingest_pc = "idle"

RawColIdle ==
    /\ cells = <<>>
    /\ pushed = <<>>
    /\ raw_col = RawCol_new
    /\ finalized = Panic
    /\ rawcol_pc = "idle"

\* Option<Vec<String>>
Some(v) == [some |-> TRUE, v |-> v]
NoneOpt == [some |-> FALSE]

\* Result<(), String>
OkUnit == [ok |-> TRUE]
Err(msg) == [ok |-> FALSE, msg |-> msg]

TaskIdle ==
    /\ file_opens = TRUE
    /\ gzipped = FALSE
    /\ task_colnames = NoneOpt
    /\ sent = <<>>
    /\ loaded = <<>>
    /\ task_pc = "idle"

\* ======================================================= engine/vector_op
\* the loop of AdditionVS::execute without output.clear()
RECURSIVE AdditionVS_push(_, _, _, _)
AdditionVS_push(output, data, c, checks) ==
    IF data = <<>> THEN Ok(output)
    ELSE LET sum == Add64(Head(data), c, checks)
         IN  IF ~sum.ok THEN Panic
             ELSE AdditionVS_push(Append(output, sum.v), Tail(data), c, checks)

\* AdditionVS::execute
AdditionVS_execute(output, stream, data, c, checks) ==
    AdditionVS_push(IF stream THEN <<>> ELSE output, data, c, checks)

\* BoolOperation::perform of LessThanInt with <= for <
perform_lte(o, l, r) ==
    CASE o = "LessThanInt" -> SLessEq(l, r)
      [] o = "EqualsInt" -> l = r
      [] o = "Equals" -> l = r

\* BoolOperation::perform of LessThanInt, EqualsInt and Equals
perform(o, l, r) ==
    CASE o = "LessThanInt" -> SLess(l, r)
      [] o = "EqualsInt" -> l = r
      [] o = "Equals" -> l = r

\* a VecConstBoolOperator::execute that never truncates its output
VecConstBoolOperator_execute_no_truncate(o, output, stream, data, c) ==
    Ok(output \o [i \in DOMAIN data |-> perform(o, data[i], c)])

\* VecConstBoolOperator::execute
VecConstBoolOperator_execute(o, output, stream, data, c) ==
    Ok((IF stream THEN <<>> ELSE output) \o [i \in DOMAIN data |-> perform(o, data[i], c)])

\* the operators
BoolOps == {"LessThanInt", "EqualsInt", "Equals"}
Ops == {"AdditionVS"} \cup BoolOps

OpIdle ==
    /\ op = "AdditionVS"
    /\ op_checks = FALSE
    /\ op_c = Zero64
    /\ op_data = <<>>
    /\ op_stream = FALSE
    /\ op_before = <<>>
    /\ op_output = <<>>
    /\ op_calls = 0
    /\ op_pc = "idle"

\* ------------------------------------- ColumnCodec for IntegerOffsetColumn
\* IntLike::t, the same for u8, u16 and u32
t(w) ==
    CASE w = "u8" -> "U8"
      [] w = "u16" -> "U8"
      [] w = "u32" -> "U8"

\* IntLike::t_ref
t_ref(w) ==
    CASE w = "u8" -> "RefU8"
      [] w = "u16" -> "RefU8"
      [] w = "u32" -> "RefU8"

\* IntLike::borrowed_typed_vec: the TypedVec variant of get_encoded
borrowed_typed_vec(w) ==
    CASE w = "u8" -> "BorrowedEncodedU8"
      [] w = "u16" -> "BorrowedEncodedU16"
      [] w = "u32" -> "BorrowedEncodedU32"

\* IntLike::typed_vec: the TypedVec variant of filter_encoded
typed_vec(w) ==
    CASE w = "u8" -> "EncodedU8"
      [] w = "u16" -> "EncodedU16"
      [] w = "u32" -> "EncodedU32"

\* the constant of a comparison lowered to the codes: c - offset on i64
ReEncode(c, offset, checks) == Sub64(c, offset, checks)

NoTags == [encoded_type |-> "", ref_encoded_type |-> "", get_encoded |-> "",
           filter_encoded |-> ""]

CmpIdle ==
    /\ cmp_op = "EqualsInt"
    /\ cmp_c = Zero64
    /\ cmp_mask = <<>>
    /\ enc_tags = NoTags
    /\ cmp_pc = "idle"

\* ----------------------------------------------------------------- inputs
A == ColName("a")
B == ColName("b")

\* the rows (a, b) a batch is made of
RowVals == {<<1, 1>>, <<1, 2>>, <<2, 2>>}

\* a batch of table t(a, b) holding the given rows
BatchOf(rows) ==
    [cols |-> <<[name |-> "a", data |-> [i \in DOMAIN rows |-> rows[i][1]]],
                [name |-> "b", data |-> [i \in DOMAIN rows |-> rows[i][2]]]>>]

\* the ways to cut a row list into consecutive non-empty batches
RECURSIVE Cuts(_, _)
Cuts(rows, k) ==
    IF rows = <<>> THEN {<<>>}
    ELSE IF k = 0 THEN {}
    ELSE UNION {{<<BatchOf(SubSeq(rows, 1, n))>> \o rest :
                    rest \in Cuts(SubSeq(rows, n + 1, Len(rows)), k - 1)} :
                n \in 1..Len(rows)}

Sources == UNION {Cuts(rows, MaxBatches) : rows \in SeqsBetween(RowVals, 0, MaxRows)}

Filters == {Const(TRUE), Func("GT", B, Const(1)), Func("GT", B, Const(2))}

\* select list and aggregate list of the queries
Shapes ==
    {[select |-> <<A, B>>, aggregate |-> <<>>],
     [select |-> <<A, Func("Add", A, B)>>, aggregate |-> <<>>],
     [select |-> <<Const(1)>>, aggregate |-> <<>>],
     [select |-> <<ColName("*")>>, aggregate |-> <<>>],
     [select |-> <<>>, aggregate |-> <<<<"Count", A>>, <<"Sum", B>>>>],
     [select |-> <<A>>, aggregate |-> <<<<"Count", B>>, <<"Sum", B>>>>],
     [select |-> <<>>, aggregate |-> <<<<"Count", Const(1)>>>>]}

Limits == [limit : 0..MaxLimit, offset : 0..MaxOffset]

Queries ==
    {[select |-> sh.select, filter |-> f, aggregate |-> sh.aggregate,
      order_by |-> o, limit |-> l] :
        sh \in Shapes, f \in Filters, l \in Limits,
        o \in {None, ColName("a"), ColName("col_0"), ColName("count_0")}}

\* the ORDER BY names a column of the result
WellFormed(q) ==
    q.order_by = None \/ q.order_by.name \in Range(result_column_names(q))

\* ---------------------------------------------------------------- actions
Init ==
    /\ query \in {q \in Queries : WellFormed(q)}
    /\ source \in Sources
    /\ pc = "compile"
    /\ subqueries = <<>>
    /\ output_colnames = <<>>
    /\ compiled_order_by = None
    /\ next_batch = 1
    /\ combined_rows = <<>>
    /\ combined_groups = EmptyMap
    /\ rows_scanned = 0
    /\ result = <<>>
    /\ IntIdle
    /\ IngestIdle
    /\ RawColIdle
    /\ TaskIdle
    /\ OpIdle
    /\ CmpIdle

\* Query::compile
Compile ==
    /\ pc = "compile"
    /\ \E select \in (IF is_select_star(query)
                      THEN {[i \in DOMAIN o |-> ColName(o[i])] :
                               o \in Orderings(find_all_cols(source))}
                      ELSE {query.select}) :
        LET q == [query EXCEPT !.select = select]
            names == result_column_names(q)
        IN  /\ query' = q
            /\ subqueries' = [b \in DOMAIN source |-> compile_for_batch(q, source[b])]
            /\ output_colnames' = names
            /\ compiled_order_by' =
                 IF q.order_by = None THEN None
                 ELSE ExprCompile(q.order_by, output_colmap(names))
    /\ pc' = "run"
    /\ UNCHANGED <<source, next_batch, combined_rows, combined_groups, rows_scanned, result>>
    /\ UNCHANGED <<ivars, gvars, rvars, tvars, ovars, cvars>>

\* one turn of the select loop of CompiledQuery::run
RunSelectBatch ==
    /\ pc = "run"
    /\ Len(query.aggregate) = 0
    /\ next_batch <= Len(subqueries)
    /\ LET batch_result == run_select_query(subqueries[next_batch])
           rows == combined_rows \o batch_result.rows
       IN  /\ subqueries' = [subqueries EXCEPT ![next_batch].coliter = batch_result.coliter]
           /\ combined_rows' = rows
           /\ rows_scanned' = rows_scanned + batch_result.rows_scanned
           /\ pc' = IF EarlyBreak(compiled_order_by, query.limit, rows) THEN "break" ELSE "run"
    /\ next_batch' = next_batch + 1
    /\ UNCHANGED <<query, source, output_colnames, compiled_order_by, combined_groups, result>>
    /\ UNCHANGED <<ivars, gvars, rvars, tvars, ovars, cvars>>

\* one turn of the aggregate loop of CompiledQuery::run
RunAggregationBatch ==
    /\ pc = "run"
    /\ Len(query.aggregate) # 0
    /\ next_batch <= Len(subqueries)
    /\ LET batch_result == run_aggregation_query(subqueries[next_batch])
       IN  /\ subqueries' = [subqueries EXCEPT ![next_batch].coliter = batch_result.coliter]
           /\ rows_scanned' = rows_scanned + batch_result.rows_scanned
           /\ combined_groups' =
                MergeGroups([i \in DOMAIN query.aggregate |-> query.aggregate[i][1]],
                            combined_groups, batch_result.groups)
    /\ next_batch' = next_batch + 1
    /\ UNCHANGED <<query, source, pc, output_colnames, compiled_order_by, combined_rows, result>>
    /\ UNCHANGED <<ivars, gvars, rvars, tvars, ovars, cvars>>

\* an end of run that reports the aggregates of no rows as one row of zeros
FinishIdentityRow ==
    /\ \/ pc = "break"
       \/ pc = "run" /\ next_batch > Len(subqueries)
    /\ \E order \in Orderings(DOMAIN combined_groups) :
        LET zeros == [i \in DOMAIN query.aggregate |-> AggZero(query.aggregate[i][1])]
            result_rows == IF Len(query.aggregate) = 0 THEN combined_rows
                           ELSE IF order = <<>> THEN <<zeros>>
                           ELSE [i \in DOMAIN order |-> order[i] \o combined_groups[order[i]]]
        IN  result' = Finalize(result_rows, None, query.limit)
    /\ pc' = "done"
    /\ UNCHANGED <<query, source, subqueries, output_colnames, compiled_order_by,
                   next_batch, combined_rows, combined_groups, rows_scanned>>
    /\ UNCHANGED <<ivars, gvars, rvars, tvars, ovars, cvars>>

\* the end of CompiledQuery::run: the rows of the groups in the HashMap's
\* order (any), then sort, skip, take
Finish ==
    /\ \/ pc = "break"
       \/ pc = "run" /\ next_batch > Len(subqueries)
    /\ \E order \in Orderings(DOMAIN combined_groups) :
        LET result_rows == IF Len(query.aggregate) = 0 THEN combined_rows
                           ELSE [i \in DOMAIN order |-> order[i] \o combined_groups[order[i]]]
        IN  result' = Finalize(result_rows, compiled_order_by, query.limit)
    /\ pc' = "done"
    /\ UNCHANGED <<query, source, subqueries, output_colnames, compiled_order_by,
                   next_batch, combined_rows, combined_groups, rows_scanned>>
    /\ UNCHANGED <<ivars, gvars, rvars, tvars, ovars, cvars>>

Next ==
    \/ Compile
    \/ RunSelectBatch
    \/ RunAggregationBatch
    \/ Finish

Spec == Init /\ [][Next]_vars

\* =================================================== reference definitions
\* the value of an uncompiled expression on row r of a batch, the columns
\* looked up by name
RECURSIVE EvalNamed(_, _, _)
EvalNamed(e, batch, r) ==
    IF e.t = "ColName"
    THEN (CHOOSE c \in Range(batch.cols) : c.name = e.name).data[r]
    ELSE IF e.t = "Const" THEN e.v
    ELSE IF e.f = "Add" THEN EvalNamed(e.l, batch, r) + EvalNamed(e.r, batch, r)
    ELSE IF e.f = "GT" THEN EvalNamed(e.l, batch, r) > EvalNamed(e.r, batch, r)
    ELSE EvalNamed(e.l, batch, r) = EvalNamed(e.r, batch, r)

\* the logical row count of a batch
BatchLen(batch) == Len(batch.cols[1].data)

\* the rows of a batch that pass the filter, in in-batch order
Passing(q, batch) ==
    SelectSeq([r \in 1..BatchLen(batch) |-> r],
              LAMBDA r : EvalNamed(q.filter, batch, r) = TRUE)

\* the naive scan: the select list on every passing row, batches in input
\* order, rows in in-batch order
NaiveScan(q, src) ==
    Flatten([b \in DOMAIN src |->
                [k \in DOMAIN Passing(q, src[b]) |->
                    [i \in DOMAIN q.select |->
                        EvalNamed(q.select[i], src[b], Passing(q, src[b])[k])]]])

\* the passing rows as (batch, row) pairs
Matches(q, src) ==
    UNION {{<<b, r>> : r \in Range(Passing(q, src[b]))} : b \in DOMAIN src}

GroupOf(q, src, m) ==
    [i \in DOMAIN q.select |-> EvalNamed(q.select[i], src[m[1]], m[2])]

RECURSIVE SumOver(_, _, _, _)
SumOver(q, src, e, ms) ==
    IF ms = {} THEN 0
    ELSE LET m == CHOOSE x \in ms : TRUE
         IN  EvalNamed(e, src[m[1]], m[2]) + SumOver(q, src, e, ms \ {m})

\* per group key: for Count the number of passing rows of the key, for Sum
\* the sum of the aggregated expression over them
NaiveGroups(q, src) ==
    [g \in {GroupOf(q, src, m) : m \in Matches(q, src)} |->
        LET ms == {m \in Matches(q, src) : GroupOf(q, src, m) = g}
        IN  [i \in DOMAIN q.aggregate |->
                IF q.aggregate[i][1] = "Count" THEN Cardinality(ms)
                ELSE SumOver(q, src, q.aggregate[i][2], ms)]]

\* the elements of a finite set of integers in ascending order
RECURSIVE Ascending(_)
Ascending(S) ==
    IF S = {} THEN <<>>
    ELSE LET m == CHOOSE x \in S : \A y \in S : x <= y
         IN  <<m>> \o Ascending(S \ {m})

\* rows sorted by the column at index k, rows of equal key in their given order
StableSorted(rows, k) ==
    LET keys == Ascending({rows[i][k] : i \in DOMAIN rows})
    IN  Flatten([j \in DOMAIN keys |-> SelectSeq(rows, LAMBDA row : row[k] = keys[j])])

Slice(rows, limit) == Take(Skip(rows, limit.offset), limit.limit)

IsSelect == Len(query.aggregate) = 0

ReferencesColumn == find_referenced_cols(query) # {}

\* ================================================================== claims
\* C1 as stated: for any list of batches and any query with no ORDER BY and
\* no aggregates, run returns rows [offset, offset+limit) of the naive scan,
\* and nothing when offset is at least the number of matching rows.
C1_AnyQuery ==
    (pc = "done" /\ IsSelect /\ query.order_by = None) =>
        /\ result = Slice(NaiveScan(query, source), query.limit)
        /\ query.limit.offset >= Len(NaiveScan(query, source)) => result = <<>>

\* C1 amended: for any list of batches and any query with no ORDER BY and no
\* aggregates that references at least one column, run returns rows
\* [offset, offset+limit) of the naive scan, whether or not the early break
\* fires, and nothing when offset is at least the number of matching rows.
C1_LimitOffset ==
    (pc = "done" /\ IsSelect /\ query.order_by = None /\ ReferencesColumn) =>
        /\ result = Slice(NaiveScan(query, source), query.limit)
        /\ query.limit.offset >= Len(NaiveScan(query, source)) => result = <<>>

\* the early break fired and left rows to return
C1_Witness ==
    /\ pc = "done" /\ IsSelect /\ query.order_by = None /\ ReferencesColumn
    /\ EarlyBreak(compiled_order_by, query.limit, combined_rows)
    /\ result # <<>>
    /\ Len(result) < Len(NaiveScan(query, source))

AllMerged == pc \in {"run", "done"} /\ next_batch > Len(subqueries)

\* C2 as stated: for any aggregate query, once all per-batch group maps are
\* merged, each group key with a passing row appears once, its Count is the
\* number of passing rows of the key and its Sum their sum.
C2_AnyAggregate ==
    (AllMerged /\ ~IsSelect) => combined_groups = NaiveGroups(query, source)

\* C2 amended: for an aggregate query that references at least one column,
\* once all per-batch group maps are merged, each group key with a passing
\* row appears once, its Count is the number of passing rows of the key over
\* all batches and its Sum the sum of the aggregated expression over them.
C2_MergedGroups ==
    (AllMerged /\ ~IsSelect /\ ReferencesColumn) =>
        combined_groups = NaiveGroups(query, source)

\* a key met in two batches, so that the merge added two partials
C2_Witness ==
    /\ pc = "done" /\ ~IsSelect /\ ReferencesColumn
    /\ \E m1 \in Matches(query, source), m2 \in Matches(query, source) :
        /\ m1[1] # m2[1]
        /\ GroupOf(query, source, m1) = GroupOf(query, source, m2)

\* the partial result of batch b
Partial(b) == run_aggregation_query(compile_for_batch(query, source[b])).groups

RECURSIVE MergeInOrder(_, _)
MergeInOrder(order, groups) ==
    IF order = <<>> THEN groups
    ELSE MergeInOrder(Tail(order),
                      MergeGroups([i \in DOMAIN query.aggregate |-> query.aggregate[i][1]],
                                  groups, Partial(Head(order))))

\* C3: for Count and Sum, merging the per-batch partial results in any
\* order of the batches gives the groups the driver's merge loop gives.
C3_MergeOrderIrrelevant ==
    (AllMerged /\ ~IsSelect) =>
        \A order \in Orderings(DOMAIN source) :
            MergeInOrder(order, EmptyMap) = combined_groups

\* two batches whose partials for one key differ
C3_Witness ==
    /\ pc = "done" /\ ~IsSelect /\ Len(source) >= 2
    /\ \E g \in DOMAIN Partial(1) \cap DOMAIN Partial(2) : Partial(1)[g] # Partial(2)[g]

NoRowMatches == Matches(query, source) = {}

SelectName(select, i) ==
    IF select[i].t = "ColName" THEN select[i].name
    ELSE Fmt("col", Cardinality({j \in 1..(i - 1) : select[j].t # "ColName"}))

KindName(agg) == IF agg = "Count" THEN "count" ELSE "sum"

SelectCountSum == query.select = <<>> /\ query.aggregate = <<<<"Count", A>>, <<"Sum", B>>>>

SelectAAPlusB == query.select = <<A, Func("Add", A, B)>> /\ query.aggregate = <<>>

\* C5 as stated: select names as above, then one name per aggregate such
\* that SELECT count(a), sum(b) yields count_0, sum_0 (each kind numbered on
\* its own) and SELECT a, a+b yields a, col_0.
C5_PerKindNames ==
    pc # "compile" =>
        /\ output_colnames =
             [i \in DOMAIN query.select |-> SelectName(query.select, i)]
             \o [i \in DOMAIN query.aggregate |->
                   Fmt(KindName(query.aggregate[i][1]),
                       Cardinality({j \in 1..(i - 1) :
                                      query.aggregate[j][1] = query.aggregate[i][1]}))]
        /\ SelectCountSum => output_colnames = <<"count_0", "sum_0">>
        /\ SelectAAPlusB => output_colnames = <<"a", "col_0">>

\* C5 amended: select names as above, then for the j-th aggregate (from 0,
\* counting all aggregates) count_j or sum_j, so that SELECT count(a), sum(b)
\* yields count_0, sum_1 and SELECT a, a+b yields a, col_0.
C5_ColumnNames ==
    pc # "compile" =>
        /\ output_colnames =
             [i \in DOMAIN query.select |-> SelectName(query.select, i)]
             \o [i \in DOMAIN query.aggregate |->
                   Fmt(KindName(query.aggregate[i][1]), i - 1)]
        /\ SelectCountSum => output_colnames = <<"count_0", "sum_1">>
        /\ SelectAAPlusB => output_colnames = <<"a", "col_0">>

\* the names of SELECT count(a), sum(b) have been computed
C5_Witness == pc = "done" /\ SelectCountSum /\ output_colnames = <<"count_0", "sum_1">>

HasOrderBy == query.order_by # None

\* the index of the ORDER BY column among the result columns
OrderIndex == output_colmap(output_colnames)[query.order_by.name]

\* C6 as stated: for any select query with ORDER BY the driver executes
\* every batch and returns the slice of the matching rows stably sorted by
\* the key.
C6_AnyOrderedSelect ==
    (pc = "done" /\ IsSelect /\ HasOrderBy) =>
        /\ next_batch = Len(subqueries) + 1
        /\ result = Slice(StableSorted(NaiveScan(query, source), OrderIndex), query.limit)

\* C6 amended: for a select query with ORDER BY that references at least one
\* column, the driver executes every batch and returns the slice
\* [offset, offset+limit) of the matching rows stably sorted by the key, rows
\* of equal key keeping their insertion order across batches.
C6_StableOrder ==
    (pc = "done" /\ IsSelect /\ HasOrderBy /\ ReferencesColumn) =>
        /\ next_batch = Len(subqueries) + 1
        /\ result = Slice(StableSorted(NaiveScan(query, source), OrderIndex), query.limit)

\* two different rows of equal key, from two batches, both returned
C6_Witness ==
    /\ pc = "done" /\ IsSelect /\ HasOrderBy /\ ReferencesColumn
    /\ Len(source) = 2 /\ Len(result) = 2
    /\ result[1] # result[2]
    /\ result[1][OrderIndex] = result[2][OrderIndex]


\* C13: running any compiled query (select or aggregate, with or without
\* ORDER BY, any limit and offset) over an empty batch list returns zero rows
\* and rows_scanned = 0.
C13_EmptyBatchList ==
    (pc = "done" /\ source = <<>>) => (result = <<>> /\ rows_scanned = 0)

\* an aggregate query with an ORDER BY and a positive limit has run over no
\* batch
C13_Witness ==
    /\ pc = "done"
    /\ source = <<>>
    /\ Len(query.aggregate) # 0
    /\ query.order_by # None
    /\ query.limit.limit > 0
    /\ result = <<>>


\* the select loop has executed a batch and goes on to another one
GoesOn == pc = "run" /\ IsSelect /\ 1 < next_batch /\ next_batch <= Len(subqueries)

\* C16 as stated: with no ORDER BY and no aggregation the driver executes no
\* further batch once the rows accumulated number at least offset + limit,
\* for every offset, also when the count equals offset + limit exactly.
C16_AtOffsetPlusLimit ==
    (GoesOn /\ query.order_by = None) =>
        Len(combined_rows) < query.limit.offset + query.limit.limit

\* C16: with no ORDER BY and no aggregation the driver executes no further
\* batch once offset is 0 and the rows accumulated number more than limit;
\* it leaves the loop early in no other case.
C16_ShortCircuit ==
    (IsSelect /\ query.order_by = None) =>
        /\ GoesOn => ~(query.limit.offset = 0 /\ query.limit.limit < Len(combined_rows))
        /\ pc = "break" =>
             (query.limit.offset = 0 /\ query.limit.limit < Len(combined_rows))

\* the loop was left with a batch not executed
C16_Witness ==
    /\ pc = "break"
    /\ next_batch <= Len(subqueries)
    /\ Len(combined_rows) > query.limit.limit


\* the rows of the batches executed so far
RECURSIVE RowsOfBatches(_)
RowsOfBatches(n) == IF n = 0 THEN 0 ELSE RowsOfBatches(n - 1) + BatchLen(source[n])

\* what holds once the batches before next_batch are executed
BatchesRan ==
    pc \in {"run", "break", "done"} =>
        LET executed == next_batch - 1
        IN  /\ \A b \in 1..executed : \A i \in DOMAIN subqueries[b].coliter :
                    subqueries[b].coliter[i] = <<>>
            /\ ReferencesColumn => rows_scanned = RowsOfBatches(executed)
            /\ ~ReferencesColumn =>
                /\ rows_scanned = 0
                /\ IsSelect => combined_rows = <<>>
                /\ (~IsSelect /\ executed > 0) =>
                    /\ DOMAIN combined_groups = {<<>>}
                    /\ combined_groups[<<>>] = <<executed>>

\* C19: run_select_query and run_aggregation_query terminate on every batch,
\* stopping when a referenced column is exhausted; for a query that
\* references no column the select path returns zero rows with rows_scanned
\* 0 and the aggregation path evaluates exactly one empty record per batch
\* and stops with rows_scanned 0.  Every call returns to the driver, which
\* then moves on to the next batch or leaves its loop.
C19_BatchLoopsEnd ==
    /\ []BatchesRan
    /\ [][pc' # pc \/ next_batch' = next_batch + 1]_vars

\* count(1) has run over two batches and counted one record for each
C19_Witness ==
    /\ pc = "done"
    /\ ~IsSelect
    /\ ~ReferencesColumn
    /\ Len(source) = 2
    /\ combined_groups[<<>>] = <<2>>

\* ================================================ SpecInt: integer columns
QueryIdle ==
    /\ query = [select |-> <<>>, filter |-> Const(TRUE), aggregate |-> <<>>,
                order_by |-> None, limit |-> [limit |-> 0, offset |-> 0]]
    /\ source = <<>>
    /\ pc = "idle"
    /\ subqueries = <<>>
    /\ output_colnames = <<>>
    /\ compiled_order_by = None
    /\ next_batch = 1
    /\ combined_rows = <<>>
    /\ combined_groups = EmptyMap
    /\ rows_scanned = 0
    /\ result = <<>>

InitInt ==
    /\ QueryIdle
    /\ IngestIdle
    /\ RawColIdle
    /\ TaskIdle
    /\ OpIdle
    /\ CmpIdle
    /\ overflow_checks \in BOOLEAN
    /\ int_values \in SeqsBetween(TestInts, 1, MaxValues)
    /\ int_min = ObservedMin(int_values)
    /\ int_max = ObservedMax(int_values)
    /\ int_pc = "new"
    /\ int_column = Panic
    /\ int_decoded = Panic

\* IntegerColumn::new(values, min, max)
NewColumn ==
    /\ int_pc = "new"
    /\ int_column' = IntegerColumn_new(int_values, int_min, int_max, overflow_checks)
    /\ int_pc' = IF int_column'.ok THEN "built" ELSE "panicked"
    /\ UNCHANGED <<overflow_checks, int_values, int_min, int_max, int_decoded>>
    /\ UNCHANGED <<qvars, gvars, rvars, tvars, ovars, cvars>>

\* ColumnData::collect_decoded on the column built
CollectDecoded ==
    /\ int_pc = "built"
    /\ int_decoded' = collect_decoded(int_column.v, overflow_checks)
    /\ int_pc' = IF int_decoded'.ok THEN "decoded" ELSE "panicked"
    /\ UNCHANGED <<overflow_checks, int_values, int_min, int_max, int_column>>
    /\ UNCHANGED <<qvars, gvars, rvars, tvars, ovars, cvars>>

NextInt ==
    \/ NewColumn
    \/ CollectDecoded

SpecInt == InitInt /\ [][NextInt]_vars

\* the order-preserving map of i64 onto the unsigned 64-bit numbers
Bias(x) == <<(x[1] + Base \div 2) % Base, x[2], x[3], x[4]>>

\* the mathematical difference max - min (0 .. 2^64 - 1) as an unsigned pattern
TrueDiff(min, max) == WrappingSub(Bias(max), Bias(min))

ULessEq(x, y) == x = y \/ ULess(x, y)

\* the narrowest encoding whose W::MAX is at least the true difference
Narrowest(min, max) ==
    LET d == TrueDiff(min, max)
    IN  IF ULessEq(d, FromNat(U8_MAX)) THEN "u8"
        ELSE IF ULessEq(d, FromNat(U16_MAX)) THEN "u16"
        ELSE IF ULessEq(d, U32_MAX_i64) THEN "u32"
        ELSE "i64"

\* C7: for every list of i64 values and its observed min and max,
\* IntegerColumn::new succeeds and decoding the column returns the original
\* values in the original order.
C7_RoundTrip ==
    /\ int_pc # "panicked"
    /\ int_pc = "decoded" => int_decoded.v = int_values

\* C8: for every min <= max, IntegerColumn::new picks the narrowest of
\* u8-offset, u16-offset, u32-offset and plain i64 whose W::MAX is at least
\* the true mathematical difference max - min.
C8_NarrowestWidth ==
    int_pc \notin {"idle", "new"} =>
        /\ int_column.ok
        /\ int_column.v.enc = Narrowest(int_min, int_max)

\* ============================================== SpecIngest: auto_ingest
InitIngest ==
    /\ QueryIdle
    /\ IntIdle
    /\ RawColIdle
    /\ TaskIdle
    /\ OpIdle
    /\ CmpIdle
    /\ colnames \in {SubSeq(ColNames, 1, n) : n \in 1..MaxCols}
    /\ batch_size \in 1..MaxBatchSize
    /\ extractors \in {{}, {colnames[1]}}
    /\ num_fields \in 1..MaxFields
    /\ ingested = <<>>
    /\ raw_cols = FreshCols(Len(colnames))
    /\ row_num = 0
    /\ batches = <<>>
    /\ ingest_pc = "rows"

\* one turn of `for row in records` of auto_ingest
IngestRow ==
    /\ ingest_pc = "rows"
    /\ row_num < MaxRecords
    /\ \E row \in [1..num_fields -> IngestCells] :
        LET filled == PushRow(raw_cols, row)
            full == row_num % batch_size = batch_size - 1
            batch == IF filled.ok THEN create_batch(filled.v, colnames, extractors)
                     ELSE Panic
        IN  /\ ingested' = Append(ingested, row)
            /\ IF ~filled.ok \/ (full /\ ~batch.ok)
               THEN /\ ingest_pc' = "panicked"
                    /\ UNCHANGED <<raw_cols, batches, row_num>>
               ELSE /\ ingest_pc' = "rows"
                    /\ batches' = IF full THEN Append(batches, batch.v) ELSE batches
                    /\ raw_cols' = IF full THEN FreshCols(Len(colnames)) ELSE filled.v
                    /\ row_num' = row_num + 1
    /\ UNCHANGED <<colnames, batch_size, extractors, num_fields>>
    /\ UNCHANGED <<qvars, ivars, rvars, tvars, ovars, cvars>>

\* the end of the stream: the last, partly filled batch and the return
IngestEnd ==
    /\ ingest_pc = "rows"
    /\ LET batch == create_batch(raw_cols, colnames, extractors)
       IN  IF row_num % batch_size # 0
           THEN IF batch.ok
                THEN /\ batches' = Append(batches, batch.v)
                     /\ ingest_pc' = "done"
                ELSE /\ batches' = batches
                     /\ ingest_pc' = "panicked"
           ELSE /\ batches' = batches
                /\ ingest_pc' = "done"
    /\ UNCHANGED <<colnames, batch_size, extractors, num_fields, ingested, raw_cols, row_num>>
    /\ UNCHANGED <<qvars, ivars, rvars, tvars, ovars, cvars>>

NextIngest ==
    \/ IngestRow
    \/ IngestEnd

SpecIngest == InitIngest /\ [][NextIngest]_vars

\* C9: every batch auto_ingest produces has the same logical row count in
\* all of its columns, for any column-name list and any record stream, also
\* when the number of names differs from the number of fields per record.
C9_EqualRowCounts ==
    \A b \in DOMAIN batches :
        \A i \in DOMAIN batches[b].cols, j \in DOMAIN batches[b].cols :
            batches[b].cols[i].len = batches[b].cols[j].len

\* ================================================ SpecRawCol: one RawCol
InitRawCol ==
    /\ QueryIdle
    /\ IntIdle
    /\ IngestIdle
    /\ TaskIdle
    /\ OpIdle
    /\ CmpIdle
    /\ cells \in SeqsBetween(Cells, 0, MaxCells)
    /\ pushed = <<>>
    /\ raw_col = RawCol_new
    /\ finalized = Panic
    /\ rawcol_pc = "push"

\* RawCol::push of the next cell
Push ==
    /\ rawcol_pc = "push"
    /\ cells # <<>>
    /\ raw_col' = push(raw_col, Head(cells))
    /\ pushed' = Append(pushed, Head(cells))
    /\ cells' = Tail(cells)
    /\ UNCHANGED <<finalized, rawcol_pc>>
    /\ UNCHANGED <<qvars, ivars, gvars, tvars, ovars, cvars>>

\* RawCol::finalize once every cell is pushed
FinalizeCol ==
    /\ rawcol_pc = "push"
    /\ cells = <<>>
    /\ finalized' = finalize(raw_col, "c1")
    /\ rawcol_pc' = IF finalized'.ok THEN "done" ELSE "panicked"
    /\ UNCHANGED <<cells, pushed, raw_col>>
    /\ UNCHANGED <<qvars, ivars, gvars, tvars, ovars, cvars>>

NextRawCol ==
    \/ Push
    \/ FinalizeCol

SpecRawCol == InitRawCol /\ [][NextRawCol]_vars

\* a cell is numeric if it reads as an i64 or as an f64
IsNumeric(s) == ParseI64(s).ok \/ ParseF64AsI64(s).ok

\* C10: RawCol::finalize chooses the kind from the set of the pushed cells,
\* whatever their order: a string column if any cell is non-empty and not
\* numeric; otherwise, if any cell is numeric, an integer column of the same
\* length in which every empty cell is 0; otherwise a null column of the
\* same length.
C10_KindFromUnion ==
    rawcol_pc # "panicked" /\
    (rawcol_pc = "done" =>
        LET S == Range(pushed)
            c == finalized.v
        IN  /\ c.len = Len(pushed)
            /\ IF \E s \in S : s # <<>> /\ ~IsNumeric(s) THEN c.kind = "string"
               ELSE IF \E s \in S : IsNumeric(s)
               THEN /\ c.kind = "int"
                    /\ Len(c.data) = Len(pushed)
                    /\ \A i \in DOMAIN pushed : pushed[i] = <<>> => c.data[i] = 0
               ELSE c.kind = "null")

\* an integer column made of a number and of an empty cell pushed after it
C10_Witness ==
    /\ rawcol_pc = "done"
    /\ Len(pushed) = 2
    /\ pushed[2] = <<>>
    /\ finalized.v.kind = "int"
    /\ finalized.v.data[2] = 0

\* ceil(n / d)
CeilDiv(n, d) == (n + d - 1) \div d

\* the RawCol made by pushing the cells of s in order
RECURSIVE RawColOf(_)
RawColOf(s) ==
    IF s = <<>> THEN RawCol_new ELSE push(RawColOf(SubSeq(s, 1, Len(s) - 1)), s[Len(s)])

\* the column that holds field f of the input rows from..to
ColumnOfRows(f, from, to) ==
    LET col == RawColOf([r \in 1..(to - from + 1) |-> ingested[from + r - 1][f]])
    IN  IF colnames[f] \in extractors THEN extract(col, colnames[f])
        ELSE finalize(col, colnames[f])

\* C11: for batch_size >= 1 and a stream of n records auto_ingest emits
\* ceil(n / batch_size) batches; every batch but the last holds exactly
\* batch_size rows, the last between 1 and batch_size, none is empty, and
\* the batches in emitted order hold the input rows in input order, none
\* lost or duplicated.
C11_Batches ==
    /\ ingest_pc # "panicked"
    /\ ingest_pc = "done" =>
        LET n == Len(ingested)
        IN  /\ Len(batches) = CeilDiv(n, batch_size)
            /\ \A b \in DOMAIN batches :
                LET from == (b - 1) * batch_size + 1
                    to == Min2(b * batch_size, n)
                IN  /\ \A i \in DOMAIN batches[b].cols :
                        /\ batches[b].cols[i].len = to - from + 1
                        /\ batches[b].cols[i].len >= 1
                        /\ b < Len(batches) => batches[b].cols[i].len = batch_size
                    /\ \A f \in 1..num_fields :
                        /\ f \in DOMAIN batches[b].cols
                        /\ Ok(batches[b].cols[f]) = ColumnOfRows(f, from, to)

\* ===================================== SpecTask: CSVIngestionTask::execute
InitTask ==
    /\ QueryIdle
    /\ IntIdle
    /\ RawColIdle
    /\ OpIdle
    /\ CmpIdle
    /\ file_opens \in BOOLEAN
    /\ gzipped \in BOOLEAN
    /\ task_colnames \in {NoneOpt} \cup {Some(SubSeq(ColNames, 1, n)) : n \in 1..MaxCols}
    /\ sent = <<>>
    /\ loaded = <<>>
    /\ task_pc = "start"
    /\ colnames = <<>>
    /\ batch_size \in 1..MaxBatchSize
    /\ extractors = {}
    /\ num_fields \in 1..MaxFields
    /\ ingested = <<>>
    /\ raw_cols = <<>>
    /\ row_num = 0
    /\ batches = <<>>
    /\ ingest_pc = "idle"

\* execute up to the call of auto_ingest: ingest_file or ingest_gzipped_file
\* opens the file and settles the headers; a file that cannot be opened is
\* the Err that execute sends
OpenFile ==
    /\ task_pc = "start"
    /\ IF ~file_opens
       THEN /\ sent' = Append(sent, Err("open"))
            /\ task_pc' = "done"
            /\ UNCHANGED <<colnames, raw_cols, ingest_pc>>
       ELSE /\ colnames' = IF task_colnames.some THEN task_colnames.v
                           ELSE SubSeq(ColNames, 1, num_fields)
            /\ raw_cols' = FreshCols(Len(colnames'))
            /\ ingest_pc' = "rows"
            /\ task_pc' = "ingest"
            /\ UNCHANGED sent
    /\ UNCHANGED <<file_opens, gzipped, task_colnames, loaded>>
    /\ UNCHANGED <<batch_size, extractors, num_fields, ingested, row_num, batches>>
    /\ UNCHANGED <<qvars, ivars, rvars, ovars, cvars>>

\* the reader yields an Err (a malformed record, invalid UTF-8, a read or
\* decompression error) for the headers or for a record: `r.unwrap()` and
\* `reader.headers().unwrap()` panic
ReadError ==
    /\ task_pc \in {"start", "ingest"}
    /\ file_opens
    /\ task_pc = "start" => ~task_colnames.some
    /\ task_pc = "ingest" => ingest_pc = "rows"
    /\ task_pc' = "panicked"
    /\ UNCHANGED <<file_opens, gzipped, task_colnames, sent, loaded>>
    /\ UNCHANGED <<qvars, ivars, gvars, rvars, ovars, cvars>>

\* the match of execute on Ok(batches): load_batches, then send
LoadBatches ==
    /\ task_pc = "ingest"
    /\ ingest_pc = "done"
    /\ loaded' = Append(loaded, batches)
    /\ sent' = Append(sent, OkUnit)
    /\ task_pc' = "done"
    /\ UNCHANGED <<file_opens, gzipped, task_colnames>>
    /\ UNCHANGED <<qvars, ivars, gvars, rvars, ovars, cvars>>

NextTask ==
    \/ OpenFile
    \/ ReadError
    \/ task_pc = "ingest" /\ IngestRow
    \/ task_pc = "ingest" /\ IngestEnd
    \/ LoadBatches

SpecTask == InitTask /\ [][NextTask]_vars

\* execute has ended, by returning or by a panic
TaskEnded == task_pc \in {"done", "panicked"} \/ ingest_pc = "panicked"

\* C12: each execute sends exactly one result on its sender: Ok(()) only
\* after load_batches was called with all batches of the file; on an
\* ingestion failure (file open, CSV parse, UTF-8) Err(message), with
\* load_batches never called.
C12_OneResult ==
    /\ Len(sent) <= 1
    /\ TaskEnded =>
        /\ Len(sent) = 1
        /\ sent[1].ok => loaded = <<batches>>
        /\ ~sent[1].ok => loaded = <<>>

\* ============================================= SpecOp: vector operators
\* the elements of the input windows and the constants
OpInts == {FromInt(1), I64_MAX}
OpConsts == {FromInt(1), FromInt(2)}

InitOp ==
    /\ QueryIdle
    /\ IntIdle
    /\ IngestIdle
    /\ RawColIdle
    /\ TaskIdle
    /\ CmpIdle
    /\ op \in Ops
    /\ op_checks \in BOOLEAN
    /\ op_c \in OpConsts
    /\ op_data = <<>>
    /\ op_stream = FALSE
    /\ op_before = <<>>
    /\ op_output = <<>>
    /\ op_calls = 0
    /\ op_pc = "new"

\* VecOperator::init: scratchpad.set(self.output, an empty buffer)
OpInit ==
    /\ op_pc = "new"
    /\ op_output' = <<>>
    /\ op_pc' = "ready"
    /\ UNCHANGED <<op, op_checks, op_c, op_data, op_stream, op_before, op_calls>>
    /\ UNCHANGED <<qvars, ivars, gvars, rvars, tvars, cvars>>

\* VecOperator::execute(stream, scratchpad) on a window of the lhs buffer
OpExecute ==
    /\ op_pc = "ready"
    /\ op_calls < MaxCalls
    /\ \E stream \in BOOLEAN, data \in SeqsBetween(OpInts, 0, MaxWindow) :
        LET out == IF op = "AdditionVS"
                   THEN AdditionVS_execute(op_output, stream, data, op_c, op_checks)
                   ELSE VecConstBoolOperator_execute(op, op_output, stream, data, op_c)
        IN  /\ op_stream' = stream
            /\ op_data' = data
            /\ op_before' = op_output
            /\ op_output' = IF out.ok THEN out.v ELSE op_output
            /\ op_pc' = IF out.ok THEN "ready" ELSE "panicked"
    /\ op_calls' = op_calls + 1
    /\ UNCHANGED <<op, op_checks, op_c>>
    /\ UNCHANGED <<qvars, ivars, gvars, rvars, tvars, cvars>>

NextOp ==
    \/ OpInit
    \/ OpExecute

SpecOp == InitOp /\ [][NextOp]_vars

\* the output buffer holds n new elements after what it held before
Appended(n) == IF op_stream THEN Len(op_output) = n
               ELSE Len(op_output) = Len(op_before) + n

\* C14: AdditionVS appends, for every input element d, d + c computed with
\* wrap-around (two's complement, modulo 2^64) i64 arithmetic; an
\* overflowing addition never raises a fault.
C14_WrappingAddition ==
    (op = "AdditionVS" /\ op_calls > 0) =>
        /\ op_pc # "panicked"
        /\ Appended(Len(op_data))
        /\ \A i \in DOMAIN op_data :
            op_output[Len(op_output) - Len(op_data) + i] = WrappingAdd(op_data[i], op_c)

\* what the operator computes for element d
OpResult(d) == IF op = "AdditionVS" THEN WrappingAdd(d, op_c)
               ELSE IF op = "LessThanInt" THEN SLess(d, op_c)
               ELSE d = op_c

\* C15: for AdditionVS and VecConstBoolOperator, after init and any sequence
\* of execute calls, a call with stream = true leaves in the output buffer
\* exactly the results for that call's window (same length, element i =
\* op(input[i], constant)) and nothing of earlier windows; a call with
\* stream = false appends the results to what the output held.
C15_StreamClears ==
    (op_pc = "ready" /\ op_calls > 0) =>
        op_output = (IF op_stream THEN <<>> ELSE op_before)
                        \o [i \in DOMAIN op_data |-> OpResult(op_data[i])]

\* a second call with stream = true on a non-empty window after a call that
\* left something in the output, for a boolean operator
C15_Witness ==
    /\ op_pc = "ready"
    /\ op \in BoolOps
    /\ op_calls = 2
    /\ op_stream
    /\ op_before # <<>>
    /\ op_data # <<>>
    /\ Len(op_output) = Len(op_data)

\* ============================== SpecCmp: working on an encoded column
InitCmp ==
    /\ QueryIdle
    /\ IngestIdle
    /\ RawColIdle
    /\ TaskIdle
    /\ OpIdle
    /\ overflow_checks \in BOOLEAN
    /\ int_values \in SeqsBetween(TestInts, 1, MaxValues)
    /\ int_min = ObservedMin(int_values)
    /\ int_max = ObservedMax(int_values)
    /\ int_pc = "new"
    /\ int_column = Panic
    /\ int_decoded = Panic
    /\ cmp_op \in {"LessThanInt", "EqualsInt"}
    /\ cmp_c \in TestInts
    /\ cmp_mask = <<>>
    /\ enc_tags = NoTags
    /\ cmp_pc = "new"

OffsetEncoded == int_pc = "built" /\ int_column.v.enc # "i64"

\* a VecConstBoolOperator run over the codes of the column with the constant
\* c - offset
CompareEncoded ==
    /\ cmp_pc = "new"
    /\ OffsetEncoded
    /\ LET r == ReEncode(cmp_c, int_column.v.offset, overflow_checks)
       IN  IF r.ok
           THEN /\ cmp_mask' = VecConstBoolOperator_execute(cmp_op, <<>>, TRUE,
                                                            int_column.v.values, r.v).v
                /\ cmp_pc' = "compared"
           ELSE /\ cmp_mask' = cmp_mask
                /\ cmp_pc' = "panicked"
    /\ UNCHANGED <<cmp_op, cmp_c, enc_tags>>
    /\ UNCHANGED <<qvars, ivars, gvars, rvars, tvars, ovars>>

\* encoded_type, ref_encoded_type, get_encoded and filter_encoded of the column
EncodedType ==
    /\ cmp_pc = "new"
    /\ OffsetEncoded
    /\ enc_tags' = [encoded_type |-> t(int_column.v.enc),
                    ref_encoded_type |-> t_ref(int_column.v.enc),
                    get_encoded |-> borrowed_typed_vec(int_column.v.enc),
                    filter_encoded |-> typed_vec(int_column.v.enc)]
    /\ cmp_pc' = "typed"
    /\ UNCHANGED <<cmp_op, cmp_c, cmp_mask>>
    /\ UNCHANGED <<qvars, ivars, gvars, rvars, tvars, ovars>>

NextCmp ==
    \/ cmp_pc = "new" /\ NewColumn
    \/ CompareEncoded
    \/ EncodedType

SpecCmp == InitCmp /\ [][NextCmp]_vars

\* the comparison on decoded values
DecodedBit(o, v, c) == IF o = "LessThanInt" THEN SLess(v, c) ELSE v = c

\* the mask of the comparison of the decoded values code + offset with c
DecodedMask ==
    LET dec == decode(int_column.v.values, int_column.v.offset, FALSE).v
    IN  [i \in DOMAIN dec |-> DecodedBit(cmp_op, dec[i], cmp_c)]

\* the true c - offset lies outside 0 .. W::MAX
OutOfRange ==
    \/ SubOverflows(cmp_c, int_column.v.offset)
    \/ ~CastFits(int_column.v.enc, WrappingSub(cmp_c, int_column.v.offset))

TagOf(w) == CASE w = "u8" -> "U8" [] w = "u16" -> "U16" [] w = "u32" -> "U32"
RefTagOf(w) == CASE w = "u8" -> "RefU8" [] w = "u16" -> "RefU16" [] w = "u32" -> "RefU32"

\* C18: for every offset-encoded column of code width W in {u8, u16, u32},
\* encoded_type() and ref_encoded_type() report the type tag of that width,
\* the width of the TypedVec variants of get_encoded() and filter_encoded().
C18_TagsMatchWidth ==
    cmp_pc = "typed" =>
        LET w == int_column.v.enc
        IN  /\ enc_tags.encoded_type = TagOf(w)
            /\ enc_tags.ref_encoded_type = RefTagOf(w)
            /\ enc_tags.get_encoded = "BorrowedEncoded" \o TagOf(w)
            /\ enc_tags.filter_encoded = "Encoded" \o TagOf(w)

====
